---- MODULE Spec2Model ----
(***************************************************************************)
(* Model of lab_connecting_python_sql.py: rentals_month (the SQL fetch),   *)
(* rental_count_month (groupby/count with a generated column name),        *)
(* compare_rentals (schema check, inner merge, difference column) and the  *)
(* __main__ workflow.                                                      *)
(*                                                                         *)
(* A DataFrame is [cols |-> sequence of column names, rows |-> sequence of *)
(* rows], a row being the sequence of its values in column order.  Column  *)
(* names are sequences of one-character strings, so that str.startswith    *)
(* and the f-string formatting are computed character by character.       *)
(* A timestamp is <<year, month, day>>.                                    *)
(***************************************************************************)
EXTENDS Integers, Sequences, FiniteSets, TLC

VARIABLES heap, call, result, db, pc, locals, files, log

vars == <<heap, call, result, db, pc, locals, files, log>>

-----------------------------------------------------------------------------
(* Bounds of the model *)

MaxRows == 2

MaxCust == 2

MaxDbRows == 3

CustomerIds == 1..MaxCust

\* count values of hand-built CustomerCount tables
Counts == {1, 3}

\* month and year arguments of rental_count_month
Months == -1..13

Years == {-44, 0, 5, 1999, 2005, 12345}

\* customers of the rental table
DbCustomers == {1, 2}

\* rental_date values held by the rental table
Dates == {<<2005, 5, 1>>, <<2005, 5, 2>>, <<2005, 6, 1>>, <<2006, 5, 1>>}

\* rental_date values of the rental table the main workflow reads
MainDates == {<<2005, 5, 1>>, <<2005, 6, 1>>, <<2006, 5, 1>>}

\* rental_date values of the frames handed to rental_count_month
AggDates == {<<2005, 5, 1>>, <<2005, 6, 1>>}

\* month and year arguments of rentals_month
FetchMonths == {5, 6}

FetchYears == {2005, 2006}

-----------------------------------------------------------------------------
(* Strings *)

RentalsPrefix == <<"r", "e", "n", "t", "a", "l", "s", "_">>

CustomerIdCol == <<"c", "u", "s", "t", "o", "m", "e", "r", "_", "i", "d">>

RentalIdCol == <<"r", "e", "n", "t", "a", "l", "_", "i", "d">>

RentalDateCol == <<"r", "e", "n", "t", "a", "l", "_", "d", "a", "t", "e">>

DifferenceCol == <<"d", "i", "f", "f", "e", "r", "e", "n", "c", "e">>

SuffixX == <<"_", "x">>

SuffixY == <<"_", "y">>

DigitChars == <<"0", "1", "2", "3", "4", "5", "6", "7", "8", "9">>

RECURSIVE NatStr(_)
\* str(n) for n >= 0
NatStr(n) ==
    IF n < 10 THEN <<DigitChars[n + 1]>>
    ELSE NatStr(n \div 10) \o <<DigitChars[(n % 10) + 1]>>

\* str(i), what f"{year}" writes
IntStr(i) == IF i < 0 THEN <<"-">> \o NatStr(-i) ELSE NatStr(i)

RECURSIVE ZeroFill(_, _)
ZeroFill(s, width) == IF Len(s) >= width THEN s ELSE ZeroFill(<<"0">> \o s, width)

Format02dUnpadded(month) == IntStr(month)

\* f"{month:02d}": zeros go between the sign and the digits, the sign counts
\* in the width
Format02d(month) ==
    IF month < 0 THEN <<"-">> \o ZeroFill(NatStr(-month), 1)
    ELSE ZeroFill(NatStr(month), 2)

\* col_name of rental_count_month
ColName(month, year) == RentalsPrefix \o Format02d(month) \o <<"_">> \o IntStr(year)

\* c.startswith(p)
StartsWith(c, p) == Len(c) >= Len(p) /\ SubSeq(c, 1, Len(p)) = p

-----------------------------------------------------------------------------
(* DataFrames *)

\* a rental_date that is NULL
NullDate == <<>>

\* what a call that raised returns
NoFrame == [cols |-> <<>>, rows |-> <<>>]

HasCol(df, name) == \E i \in 1..Len(df.cols) : df.cols[i] = name

ColIndex(df, name) == CHOOSE i \in 1..Len(df.cols) : df.cols[i] = name

RECURSIVE SortedSeq(_)
\* the elements of a finite set of integers, ascending
SortedSeq(S) ==
    IF S = {} THEN <<>>
    ELSE LET m == CHOOSE x \in S : \A y \in S : x <= y
         IN <<m>> \o SortedSeq(S \ {m})

RECURSIVE Flatten(_)
Flatten(ss) == IF ss = <<>> THEN <<>> ELSE Head(ss) \o Flatten(Tail(ss))

RemoveAt(s, k) == SubSeq(s, 1, k - 1) \o SubSeq(s, k + 1, Len(s))

RentalsColumns == <<RentalIdCol, RentalDateCol, CustomerIdCol>>

-----------------------------------------------------------------------------
(* rental_count_month *)

Returned(value) == [status |-> "ok", value |-> value]

Raised(error) == [status |-> error, value |-> NoFrame]

\* df.groupby("customer_id", as_index=False)["rental_id"].count()
\*   .rename(columns={"rental_id": col_name}):
\* one row per key, keys ascending, counting the rows of the key (no key and no
\* rental_id of a rental row is null)
GroupbyCount(df, col_name) ==
    LET k == ColIndex(df, CustomerIdCol)
        keys == SortedSeq({df.rows[i][k] : i \in 1..Len(df.rows)})
        count(c) == Cardinality({i \in 1..Len(df.rows) :
                                    df.rows[i][k] = c})
    IN [cols |-> <<CustomerIdCol, col_name>>,
        rows |-> [i \in 1..Len(keys) |-> <<keys[i], count(keys[i])>>]]

\* a rental_count_month that keeps only the rows of the named month
RentalCountMonthFiltered(df_rentals, month, year) ==
    LET d == ColIndex(df_rentals, RentalDateCol)
        inMonth(row) == row[d][1] = year /\ row[d][2] = month
    IN Returned(GroupbyCount([df_rentals EXCEPT !.rows = SelectSeq(@, inMonth)],
                             ColName(month, year)))

\* a rental_count_month that rejects a frame without rows
RentalCountMonthNonEmpty(df_rentals, month, year) ==
    IF df_rentals.rows = <<>> THEN Raised("KeyError")
    ELSE Returned(GroupbyCount(df_rentals, ColName(month, year)))

RentalCountMonth(df_rentals, month, year) ==
    Returned(GroupbyCount(df_rentals, ColName(month, year)))

-----------------------------------------------------------------------------
(* compare_rentals *)

\* [c for c in df.columns if c.startswith("rentals_")]
RentalsCols(df) == SelectSeq(df.cols, LAMBDA c : StartsWith(c, RentalsPrefix))

SchemaInvalidBoth(rentals_cols_1, rentals_cols_2) ==
    Len(rentals_cols_1) # 1 /\ Len(rentals_cols_2) # 1

\* the condition of the raise ValueError
SchemaInvalid(rentals_cols_1, rentals_cols_2) ==
    Len(rentals_cols_1) # 1 \/ Len(rentals_cols_2) # 1

\* df_counts_1.merge(df_counts_2, on="customer_id", how="inner"): the columns of
\* the left frame, then those of the right one but the key; a column name other
\* than the key that both frames have gets the suffixes _x and _y; one row per
\* pair of a left and a right row with equal keys, in the order of the left rows
Merge(left, right) ==
    LET lk == ColIndex(left, CustomerIdCol)
        rk == ColIndex(right, CustomerIdCol)
        other(df) == {df.cols[i] : i \in 1..Len(df.cols)} \ {CustomerIdCol}
        overlap == other(left) \cap other(right)
        lcols == [i \in 1..Len(left.cols) |->
                    IF left.cols[i] \in overlap THEN left.cols[i] \o SuffixX
                    ELSE left.cols[i]]
        rcols == [i \in 1..Len(right.cols) |->
                    IF right.cols[i] \in overlap THEN right.cols[i] \o SuffixY
                    ELSE right.cols[i]]
        pairs(lrow) ==
            LET matches == SelectSeq(right.rows, LAMBDA rrow : rrow[rk] = lrow[lk])
            IN [j \in 1..Len(matches) |-> lrow \o RemoveAt(matches[j], rk)]
    IN [cols |-> lcols \o RemoveAt(rcols, rk),
        rows |-> Flatten([i \in 1..Len(left.rows) |-> pairs(left.rows[i])])]

DifferenceSwapped(value_1, value_2) == value_1 - value_2

\* df_merged[col_2] - df_merged[col_1], row by row
Difference(value_1, value_2) == value_2 - value_1

\* df[name] = values: replaces the column when df has it, appends it otherwise
SetColumn(df, name, values) ==
    IF HasCol(df, name)
    THEN [df EXCEPT !.rows = [i \in 1..Len(df.rows) |->
                                [df.rows[i] EXCEPT ![ColIndex(df, name)] = values[i]]]]
    ELSE [cols |-> Append(df.cols, name),
          rows |-> [i \in 1..Len(df.rows) |-> Append(df.rows[i], values[i])]]

\* compare_rentals: how the call ends (status), the frame it returns (value),
\* the frame df_merged refers to when the call ends (merged) and the
\* statements it ran (trace)
CompareRentals(df_counts_1, df_counts_2) ==
    LET rentals_cols_1 == RentalsCols(df_counts_1)
        rentals_cols_2 == RentalsCols(df_counts_2)
    IN IF SchemaInvalid(rentals_cols_1, rentals_cols_2)
       THEN [status |-> "ValueError", value |-> NoFrame, merged |-> NoFrame,
             trace |-> <<"detect">>]
       ELSE IF ~(HasCol(df_counts_1, CustomerIdCol) /\ HasCol(df_counts_2, CustomerIdCol))
       THEN [status |-> "KeyError", value |-> NoFrame, merged |-> NoFrame,
             trace |-> <<"detect", "merge">>]
       ELSE
         LET col_1 == rentals_cols_1[1]
             col_2 == rentals_cols_2[1]
             df_merged == Merge(df_counts_1, df_counts_2)
         IN IF ~(HasCol(df_merged, col_2) /\ HasCol(df_merged, col_1))
            THEN [status |-> "KeyError", value |-> NoFrame, merged |-> df_merged,
                  trace |-> <<"detect", "merge">>]
            ELSE
              LET i1 == ColIndex(df_merged, col_1)
                  i2 == ColIndex(df_merged, col_2)
                  difference == [i \in 1..Len(df_merged.rows) |->
                                    Difference(df_merged.rows[i][i1],
                                               df_merged.rows[i][i2])]
                  out == SetColumn(df_merged, DifferenceCol, difference)
              IN [status |-> "ok", value |-> out, merged |-> out,
                  trace |-> <<"detect", "merge", "difference">>]

-----------------------------------------------------------------------------
(* rentals_month *)

\* the rental table: rows <<rental_id, rental_date, customer_id>> in storage
\* order, rental_id unique
RentalTables(dates) ==
    {[i \in 1..Len(f) |-> <<i, f[i][1], f[i][2]>>] :
        f \in UNION {[1..n -> dates \X DbCustomers] : n \in 0..MaxDbRows}}

WhereClauseMonthOnly(row, month, year) ==
    row[2] # NullDate /\ row[2][2] = month

\* WHERE YEAR(rental_date) = :year AND MONTH(rental_date) = :month; both are
\* NULL, and the row is left out, when rental_date is NULL
WhereClause(row, month, year) ==
    row[2] # NullDate /\ row[2][1] = year /\ row[2][2] = month

\* rental_date order of two timestamps
DateLe(d, e) ==
    \/ d[1] < e[1]
    \/ d[1] = e[1] /\ d[2] < e[2]
    \/ d[1] = e[1] /\ d[2] = e[2] /\ d[3] <= e[3]

IndexOrders(n) == {p \in [1..n -> 1..n] : \A i, j \in 1..n : p[i] = p[j] => i = j}

\* the frames pd.read_sql(query, engine, params) can return: the selected
\* rows ORDER BY rental_date, rows of equal rental_date in any order
RentalsMonthResults(table, month, year) ==
    LET selected == SelectSeq(table, LAMBDA row : WhereClause(row, month, year))
        n == Len(selected)
    IN {[cols |-> RentalsColumns, rows |-> [i \in 1..n |-> selected[p[i]]]] :
          p \in {q \in IndexOrders(n) :
                   \A i \in 1..(n - 1) :
                      DateLe(selected[q[i]][2], selected[q[i + 1]][2])}}

-----------------------------------------------------------------------------
(* Calls of rental_count_month and compare_rentals on frames held by the    *)
(* caller.  heap maps the identity of each DataFrame object to its content; *)
(* a call is given references and returns one.                              *)

\* no call has ended; ret is the set of the references a call returned, empty
\* when it raised
Pending == [status |-> "pending", ret |-> {}, trace |-> <<>>]

NewRef(h) == Cardinality(DOMAIN h) + 1

Store(h, ref, df) == [i \in DOMAIN h \cup {ref} |-> IF i = ref THEN df ELSE h[i]]

CountsTargetInPlace(h, df_rentals) == df_rentals

\* groupby(...)[...].count().rename(...) builds a new frame
CountsTarget(h, df_rentals) == NewRef(h)

MergeTargetInPlace(h, df_counts_1) == df_counts_1

\* merge builds a new frame, which df_merged then names
MergeTarget(h, df_counts_1) == NewRef(h)

\* the frames rentals_month can return: the three columns of the SELECT,
\* rental_id unique
RentalsFrames(dates) ==
    {[cols |-> RentalsColumns,
      rows |-> [i \in 1..Len(f) |-> <<i, f[i][1], f[i][2]>>]] :
        f \in UNION {[1..n -> dates \X CustomerIds] : n \in 0..MaxRows}}

\* the column lists of the frames handed to compare_rentals: a counts table of
\* May, one of June, a table without a count column, one with two, and an
\* unaggregated rentals frame
ShapeCols(shape) ==
    CASE shape = "may" -> <<CustomerIdCol, ColName(5, 2005)>>
      [] shape = "june" -> <<CustomerIdCol, ColName(6, 2005)>>
      [] shape = "ids" -> <<CustomerIdCol>>
      [] shape = "both" -> <<CustomerIdCol, ColName(5, 2005), ColName(6, 2005)>>
      [] shape = "raw" -> RentalsColumns

ShapeRow(shape, customer_id, n) ==
    CASE shape = "may" -> <<customer_id, n>>
      [] shape = "june" -> <<customer_id, n>>
      [] shape = "ids" -> <<customer_id>>
      [] shape = "both" -> <<customer_id, n, n>>
      [] shape = "raw" -> <<n, <<2005, 5, 1>>, customer_id>>

ShapeCounts(shape) == IF shape \in {"may", "june"} THEN Counts ELSE {1}

Frames(shape) ==
    {[cols |-> ShapeCols(shape),
      rows |-> [i \in 1..Len(f) |-> ShapeRow(shape, f[i][1], f[i][2])]] :
        f \in UNION {[1..n -> CustomerIds \X ShapeCounts(shape)] : n \in 0..MaxRows}}

ShapePairs ==
    {<<"may", "june">>, <<"june", "may">>, <<"may", "may">>,
     <<"ids", "june">>, <<"may", "both">>, <<"raw", "raw">>, <<"both", "ids">>}

MainIdle ==
    /\ db = <<>>
    /\ pc = "idle"
    /\ locals = <<>>
    /\ files = {}
    /\ log = <<>>

InitRentalCountMonth ==
    /\ \E df \in RentalsFrames(AggDates) : heap = Store(<<>>, 1, df)
    /\ \E month \in Months, year \in Years :
          call = [fn |-> "rental_count_month", df_rentals |-> 1,
                  month |-> month, year |-> year]

InitCompareRentals ==
    /\ \E p \in ShapePairs : \E a \in Frames(p[1]), b \in Frames(p[2]) :
          heap = Store(Store(<<>>, 1, a), 2, b)
    /\ call = [fn |-> "compare_rentals", df_counts_1 |-> 1, df_counts_2 |-> 2]

Init ==
    /\ InitRentalCountMonth \/ InitCompareRentals
    /\ result = Pending
    /\ MainIdle

\* df_counts = rental_count_month(df_rentals, month, year)
RentalCountMonthCall ==
    /\ call.fn = "rental_count_month"
    /\ result = Pending
    /\ LET res == RentalCountMonth(heap[call.df_rentals], call.month, call.year)
           ref == CountsTarget(heap, call.df_rentals)
       IN IF res.status = "ok"
          THEN /\ heap' = Store(heap, ref, res.value)
               /\ result' = [status |-> "ok", ret |-> {ref}, trace |-> <<"groupby">>]
          ELSE /\ heap' = heap
               /\ result' = [status |-> res.status, ret |-> {},
                             trace |-> <<"groupby">>]
    /\ UNCHANGED <<call, db, pc, locals, files, log>>

\* df_comparison = compare_rentals(df_counts_1, df_counts_2)
CompareRentalsCall ==
    /\ call.fn = "compare_rentals"
    /\ result = Pending
    /\ LET res == CompareRentals(heap[call.df_counts_1], heap[call.df_counts_2])
           ref == MergeTarget(heap, call.df_counts_1)
       IN /\ heap' = IF "merge" \in {res.trace[i] : i \in 1..Len(res.trace)}
                        /\ res.merged # NoFrame
                     THEN Store(heap, ref, res.merged)
                     ELSE heap
          /\ result' = [status |-> res.status,
                        ret |-> IF res.status = "ok" THEN {ref} ELSE {},
                        trace |-> res.trace]
    /\ UNCHANGED <<call, db, pc, locals, files, log>>

Next == RentalCountMonthCall \/ CompareRentalsCall

Spec == Init /\ [][Next]_vars

InitFetch ==
    /\ heap = <<>>
    /\ \E month \in FetchMonths, year \in FetchYears :
          call = [fn |-> "rentals_month", month |-> month, year |-> year]
    /\ result = Pending
    /\ db \in RentalTables(Dates \cup {NullDate})
    /\ pc = "idle"
    /\ locals = <<>>
    /\ files = {}
    /\ log = <<>>

\* df = rentals_month(engine, month, year), the query answered
RentalsMonthCall ==
    /\ call.fn = "rentals_month"
    /\ result = Pending
    /\ \E df \in RentalsMonthResults(db, call.month, call.year) :
          /\ heap' = Store(heap, NewRef(heap), df)
          /\ result' = [status |-> "ok", ret |-> {NewRef(heap)},
                        trace |-> <<"read_sql">>]
    /\ UNCHANGED <<call, db, pc, locals, files, log>>

\* rentals_month(engine, month, year), the server unreachable or the query
\* refused: read_sql raises and the call has no try
RentalsMonthRaises ==
    /\ call.fn = "rentals_month"
    /\ result = Pending
    /\ result' = [status |-> "OperationalError", ret |-> {}, trace |-> <<"read_sql">>]
    /\ UNCHANGED <<heap, call, db, pc, locals, files, log>>

NextFetch == RentalsMonthCall \/ RentalsMonthRaises

SpecFetch == InitFetch /\ [][NextFetch]_vars

-----------------------------------------------------------------------------
(* The __main__ workflow.  pc names the statement to run next, locals holds *)
(* the frames bound so far, files the files written, log the statements run *)
(* and how each ended.                                                      *)

RentalsTotalCol == <<"r", "e", "n", "t", "a", "l", "s">>

MetricCol == <<"m", "e", "t", "r", "i", "c">>

ValueCol == <<"v", "a", "l", "u", "e">>

Unbound ==
    [df_test |-> NoFrame, df_may_rentals |-> NoFrame, df_june_rentals |-> NoFrame,
     df_may_counts |-> NoFrame, df_june_counts |-> NoFrame,
     df_comparison |-> NoFrame]

InitMain ==
    /\ heap = <<>>
    /\ call = [fn |-> "main"]
    /\ result = Pending
    /\ db \in RentalTables(MainDates)
    /\ pc = "connect"
    /\ locals = Unbound
    /\ files = {}
    /\ log = <<>>

AfterRaiseRetry(step) == step

\* no statement of the workflow is inside a try: an exception ends the process
AfterRaise(step) == "aborted"

Completes(step, next) ==
    /\ pc' = next
    /\ log' = Append(log, [step |-> step, outcome |-> "ok"])

Raises(step) ==
    /\ pc' = AfterRaise(step)
    /\ log' = Append(log, [step |-> step, outcome |-> "raised"])
    /\ UNCHANGED <<locals, files>>

\* df.to_csv(name, index=False)
ToCsv(name, df) == files' = files \cup {[name |-> name, content |-> df]}

\* df.sort_values("difference", ascending=False): the orders of the rows with
\* difference descending
SortValuesDescending(df) ==
    LET n == Len(df.rows)
        d == ColIndex(df, DifferenceCol)
    IN {[df EXCEPT !.rows = [i \in 1..n |-> df.rows[p[i]]]] :
          p \in {q \in IndexOrders(n) :
                   \A i \in 1..(n - 1) : df.rows[q[i]][d] >= df.rows[q[i + 1]][d]}}

\* df_test = pd.read_sql("SELECT COUNT(*) AS rentals FROM rental;", engine)
ConnectivityCheck ==
    /\ pc = "connect"
    /\ \/ /\ locals' = [locals EXCEPT !.df_test =
                          [cols |-> <<RentalsTotalCol>>, rows |-> <<<<Len(db)>>>>]]
          /\ Completes("connect", "fetch_may")
          /\ UNCHANGED files
       \/ Raises("connect")
    /\ UNCHANGED <<heap, call, result, db>>

\* df_may_rentals = rentals_month(engine, month=5, year=2005)
FetchMay ==
    /\ pc = "fetch_may"
    /\ \/ /\ \E df \in RentalsMonthResults(db, 5, 2005) :
                locals' = [locals EXCEPT !.df_may_rentals = df]
          /\ Completes("fetch_may", "fetch_june")
          /\ UNCHANGED files
       \/ Raises("fetch_may")
    /\ UNCHANGED <<heap, call, result, db>>

\* df_june_rentals = rentals_month(engine, month=6, year=2005)
FetchJune ==
    /\ pc = "fetch_june"
    /\ \/ /\ \E df \in RentalsMonthResults(db, 6, 2005) :
                locals' = [locals EXCEPT !.df_june_rentals = df]
          /\ Completes("fetch_june", "count_may")
          /\ UNCHANGED files
       \/ Raises("fetch_june")
    /\ UNCHANGED <<heap, call, result, db>>

\* df_may_counts = rental_count_month(df_may_rentals, month=5, year=2005)
CountMay ==
    /\ pc = "count_may"
    /\ LET res == RentalCountMonth(locals.df_may_rentals, 5, 2005)
       IN \/ /\ res.status = "ok"
             /\ locals' = [locals EXCEPT !.df_may_counts = res.value]
             /\ Completes("count_may", "count_june")
             /\ UNCHANGED files
          \/ Raises("count_may")
    /\ UNCHANGED <<heap, call, result, db>>

\* df_june_counts = rental_count_month(df_june_rentals, month=6, year=2005)
CountJune ==
    /\ pc = "count_june"
    /\ LET res == RentalCountMonth(locals.df_june_rentals, 6, 2005)
       IN \/ /\ res.status = "ok"
             /\ locals' = [locals EXCEPT !.df_june_counts = res.value]
             /\ Completes("count_june", "compare")
             /\ UNCHANGED files
          \/ Raises("count_june")
    /\ UNCHANGED <<heap, call, result, db>>

\* df_comparison = compare_rentals(df_may_counts, df_june_counts)
Compare ==
    /\ pc = "compare"
    /\ LET res == CompareRentals(locals.df_may_counts, locals.df_june_counts)
       IN \/ /\ res.status = "ok"
             /\ locals' = [locals EXCEPT !.df_comparison = res.value]
             /\ Completes("compare", "sort")
             /\ UNCHANGED files
          \/ Raises("compare")
    /\ UNCHANGED <<heap, call, result, db>>

\* df_comparison = df_comparison.sort_values("difference", ascending=False)
Sort ==
    /\ pc = "sort"
    /\ \E df \in SortValuesDescending(locals.df_comparison) :
          locals' = [locals EXCEPT !.df_comparison = df]
    /\ Completes("sort", "save_comparison")
    /\ UNCHANGED <<heap, call, result, db, files>>

\* one to_csv of the workflow: it writes the file, or raises
Save(step, next, name, df) ==
    /\ pc = step
    /\ \/ /\ ToCsv(name, df)
          /\ Completes(step, next)
          /\ UNCHANGED locals
       \/ Raises(step)
    /\ UNCHANGED <<heap, call, result, db>>

SaveComparison ==
    Save("save_comparison", "save_may_counts",
         "customer_rentals_may_vs_june_2005.csv", locals.df_comparison)

SaveMayCounts ==
    Save("save_may_counts", "save_june_counts",
         "customer_rentals_may_2005.csv", locals.df_may_counts)

SaveJuneCounts ==
    Save("save_june_counts", "save_raw_may",
         "customer_rentals_june_2005.csv", locals.df_june_counts)

SaveRawMay ==
    Save("save_raw_may", "save_raw_june",
         "rentals_raw_may_2005.csv", locals.df_may_rentals)

SaveRawJune ==
    Save("save_raw_june", "save_summary",
         "rentals_raw_june_2005.csv", locals.df_june_rentals)

\* summary = pd.DataFrame({...}); summary.to_csv("summary_metrics.csv", index=False)
Summary ==
    [cols |-> <<MetricCol, ValueCol>>,
     rows |-> <<<<"total_rentals", locals.df_test.rows[1][1]>>,
                <<"may_rentals", Len(locals.df_may_rentals.rows)>>,
                <<"june_rentals", Len(locals.df_june_rentals.rows)>>,
                <<"may_active_customers", Len(locals.df_may_counts.rows)>>,
                <<"june_active_customers", Len(locals.df_june_counts.rows)>>,
                <<"active_both_months", Len(locals.df_comparison.rows)>>>>]

SaveSummary == Save("save_summary", "done", "summary_metrics.csv", Summary)

NextMain ==
    \/ ConnectivityCheck
    \/ FetchMay
    \/ FetchJune
    \/ CountMay
    \/ CountJune
    \/ Compare
    \/ Sort
    \/ SaveComparison
    \/ SaveMayCounts
    \/ SaveJuneCounts
    \/ SaveRawMay
    \/ SaveRawJune
    \/ SaveSummary

SpecMain == InitMain /\ [][NextMain]_vars

-----------------------------------------------------------------------------
(* Properties of rental_count_month and compare_rentals *)

Ended(fn) == call.fn = fn /\ result # Pending

\* the frame a call returned
Out == heap[CHOOSE ref \in result.ret : TRUE]

Elems(s) == {s[i] : i \in 1..Len(s)}

CustomerIdsOf(df) == {df.rows[i][ColIndex(df, CustomerIdCol)] : i \in 1..Len(df.rows)}

UniqueCustomerIds(df) == Cardinality(CustomerIdsOf(df)) = Len(df.rows)

CountColumns(df) == {i \in 1..Len(df.cols) : StartsWith(df.cols[i], RentalsPrefix)}

OneCountColumn(df) == Cardinality(CountColumns(df)) = 1

CountColumnName(df) == df.cols[CHOOSE i \in CountColumns(df) : TRUE]

Value(df, row, name) == row[ColIndex(df, name)]

A == heap[call.df_counts_1]

B == heap[call.df_counts_2]

\* C1: for counts tables A and B with one rentals_* column each and unique
\* customer_ids, compare_rentals(A, B) returns a table with exactly one row per
\* customer_id that is in both A and B, and no other row.
C1_IntersectionLaw ==
    (Ended("compare_rentals") /\ OneCountColumn(A) /\ OneCountColumn(B)
        /\ UniqueCustomerIds(A) /\ UniqueCustomerIds(B))
    => /\ result.status = "ok"
       /\ CustomerIdsOf(Out) = CustomerIdsOf(A) \cap CustomerIdsOf(B)
       /\ UniqueCustomerIds(Out)

\* what holds of every table compare_rentals does return: its customer_ids are
\* those in both inputs
IntersectionWhenReturned ==
    (Ended("compare_rentals") /\ result.status = "ok")
    => CustomerIdsOf(Out) = CustomerIdsOf(A) \cap CustomerIdsOf(B)

\* C2: every row of the table compare_rentals(A, B) returns pairs a row of A
\* and a row of B of one customer, and its difference is the count in B minus
\* the count in A.
C2_DifferenceIsSecondMinusFirst ==
    (Ended("compare_rentals") /\ result.status = "ok")
    => \A i \in 1..Len(Out.rows) :
          LET row == Out.rows[i]
          IN \E a \in Elems(A.rows), b \in Elems(B.rows) :
                /\ Value(A, a, CustomerIdCol) = Value(Out, row, CustomerIdCol)
                /\ Value(B, b, CustomerIdCol) = Value(Out, row, CustomerIdCol)
                /\ Value(Out, row, DifferenceCol)
                     = Value(B, b, CountColumnName(B)) - Value(A, a, CountColumnName(A))

\* a returned table with a negative and a zero difference
C2_Witness ==
    /\ Ended("compare_rentals") /\ result.status = "ok"
    /\ \E i, j \in 1..Len(Out.rows) :
          /\ Value(Out, Out.rows[i], DifferenceCol) < 0
          /\ Value(Out, Out.rows[j], DifferenceCol) = 0

\* C4: compare_rentals on an input with zero, or two or more, rentals_* columns
\* raises the validation error before the merge and returns no table.
C4_SchemaErrorBeforeJoin ==
    (Ended("compare_rentals") /\ (~OneCountColumn(A) \/ ~OneCountColumn(B)))
    => /\ result.status = "ValueError"
       /\ result.ret = {}
       /\ "merge" \notin Elems(result.trace)
       /\ DOMAIN heap = {call.df_counts_1, call.df_counts_2}

\* a valid first table and a second one with two rentals_* columns
C4_Witness ==
    /\ Ended("compare_rentals")
    /\ OneCountColumn(A) /\ Cardinality(CountColumns(B)) >= 2
    /\ A.rows # <<>> /\ B.rows # <<>>
    /\ result.status = "ValueError"

\* C5: for inputs with exactly one rentals_* column each, whatever the two
\* names are, compare_rentals returns a table with customer_id, both count
\* columns under their original names, and difference.
C5_ReturnsBothColumns ==
    (Ended("compare_rentals") /\ OneCountColumn(A) /\ OneCountColumn(B))
    => /\ result.status = "ok"
       /\ {CustomerIdCol, CountColumnName(A), CountColumnName(B), DifferenceCol}
             \subseteq Elems(Out.cols)

\* what holds when the two names differ
BothColumnsWhenNamesDiffer ==
    (Ended("compare_rentals") /\ OneCountColumn(A) /\ OneCountColumn(B)
        /\ CountColumnName(A) # CountColumnName(B))
    => /\ result.status = "ok"
       /\ Out.cols = <<CustomerIdCol, CountColumnName(A), CountColumnName(B),
                       DifferenceCol>>

In == heap[call.df_rentals]

RowsOfCustomer(df, c) ==
    {i \in 1..Len(df.rows) : Value(df, df.rows[i], CustomerIdCol) = c}

\* C3: whatever month and year are, rental_count_month returns exactly one row
\* per distinct customer_id of its input, holding the number of input rows of
\* that customer, and no row of a customer_id the input does not have.
C3_CountPerCustomer ==
    Ended("rental_count_month")
    => /\ result.status = "ok"
       /\ CustomerIdsOf(Out) = CustomerIdsOf(In)
       /\ UniqueCustomerIds(Out)
       /\ \A i \in 1..Len(Out.rows) :
             Out.rows[i][2]
               = Cardinality(RowsOfCustomer(In, Value(Out, Out.rows[i], CustomerIdCol)))

\* a customer with a rental in May and one in June, counted under a month that
\* is neither
C3_Witness ==
    /\ Ended("rental_count_month")
    /\ call.month = 12 /\ call.year = 1999
    /\ \E i, j \in 1..Len(In.rows) :
          /\ In.rows[i][3] = In.rows[j][3]
          /\ In.rows[i][2][2] = 5 /\ In.rows[j][2][2] = 6
    /\ \E i \in 1..Len(Out.rows) : Out.rows[i][2] = 2

DigitValue(ch) == CHOOSE d \in 0..9 : DigitChars[d + 1] = ch

IsDigits(s) == s # <<>> /\ \A i \in 1..Len(s) : s[i] \in Elems(DigitChars)

RECURSIVE ParseNat(_)
ParseNat(s) ==
    IF s = <<>> THEN 0
    ELSE 10 * ParseNat(SubSeq(s, 1, Len(s) - 1)) + DigitValue(s[Len(s)])

\* s is the decimal writing of i, without a leading zero
Writes(s, i) ==
    LET digits == IF i < 0 THEN Tail(s) ELSE s
    IN /\ s # <<>>
       /\ (i < 0) = (s[1] = "-")
       /\ IsDigits(digits)
       /\ (Len(digits) > 1 => digits[1] # "0")
       /\ ParseNat(digits) = (IF i < 0 THEN -i ELSE i)

\* C6: for a month in 1..12 and any year, the count column of the output is
\* named rentals_<MM>_<YYYY>, MM the month in two digits and YYYY the year as
\* written, and it is the only count column (rentals_05_2005 for May 2005,
\* rentals_12_1999 for December 1999).
C6_ColumnName ==
    (Ended("rental_count_month") /\ call.month \in 1..12)
    => LET name == CountColumnName(Out)
       IN /\ result.status = "ok"
          /\ OneCountColumn(Out)
          /\ Len(name) >= 12
          /\ SubSeq(name, 1, 8) = RentalsPrefix
          /\ IsDigits(SubSeq(name, 9, 10))
          /\ ParseNat(SubSeq(name, 9, 10)) = call.month
          /\ name[11] = "_"
          /\ Writes(SubSeq(name, 12, Len(name)), call.year)
          /\ (call.month = 5 /\ call.year = 2005
                => name = <<"r", "e", "n", "t", "a", "l", "s", "_",
                            "0", "5", "_", "2", "0", "0", "5">>)
          /\ (call.month = 12 /\ call.year = 1999
                => name = <<"r", "e", "n", "t", "a", "l", "s", "_",
                            "1", "2", "_", "1", "9", "9", "9">>)

\* the call of May 2005 has returned
C6_Witness ==
    /\ Ended("rental_count_month")
    /\ call.month = 5 /\ call.year = 2005
    /\ result.status = "ok"
    /\ Out.cols[2] = ColName(5, 2005)

\* C7: rental_count_month on a frame without rows returns a table without rows
\* and raises nothing.
C7_EmptyInput ==
    (Ended("rental_count_month") /\ In.rows = <<>>)
    => /\ result.status = "ok"
       /\ Out.rows = <<>>
       /\ Len(Out.cols) = 2

C7_Witness ==
    /\ Ended("rental_count_month") /\ In.rows = <<>>
    /\ result.status = "ok" /\ Out.rows = <<>>

\* C10: neither call changes a frame it was given, whether it returns or
\* raises, and no given frame gets a difference column.
C10_InputsUnchanged ==
    [][\A ref \in DOMAIN heap :
          /\ ref \in DOMAIN heap'
          /\ heap'[ref] = heap[ref]
          /\ ~HasCol(heap'[ref], DifferenceCol)]_vars

\* compare_rentals has returned a new frame with a difference column and rows
C10_Witness ==
    /\ Ended("compare_rentals") /\ result.status = "ok"
    /\ result.ret \cap {call.df_counts_1, call.df_counts_2} = {}
    /\ HasCol(Out, DifferenceCol) /\ Out.rows # <<>>
    /\ ~HasCol(A, DifferenceCol) /\ ~HasCol(B, DifferenceCol)

-----------------------------------------------------------------------------
(* Properties of rentals_month *)

\* the rows of the rental table in the month: a rental_date that is not NULL,
\* of the year and of the month asked for
RowsOfMonth ==
    {db[i] : i \in {j \in 1..Len(db) :
                      /\ Len(db[j][2]) = 3
                      /\ db[j][2][1] = call.year
                      /\ db[j][2][2] = call.month}}

\* C8: rentals_month returns exactly the rental rows whose rental_date is of
\* the year and of the month asked for, each once, with rental_id, rental_date
\* and customer_id, rental_date ascending.
C8_RowsOfTheMonthInDateOrder ==
    (Ended("rentals_month") /\ result.status = "ok")
    => /\ Out.cols = <<RentalIdCol, RentalDateCol, CustomerIdCol>>
       /\ Elems(Out.rows) = RowsOfMonth
       /\ Len(Out.rows) = Cardinality(RowsOfMonth)
       /\ \A i, j \in 1..Len(Out.rows) :
             i < j => DateLe(Out.rows[i][2], Out.rows[j][2])

\* two rows of the month stored in descending rental_date order, and a row of
\* the same month of another year
C8_Witness ==
    /\ Ended("rentals_month") /\ result.status = "ok"
    /\ call.month = 5 /\ call.year = 2005
    /\ Len(db) = 3
    /\ db[1][2] = <<2005, 5, 2>> /\ db[2][2] = <<2006, 5, 1>> /\ db[3][2] = <<2005, 5, 1>>
    /\ Len(Out.rows) = 2 /\ Out.rows[1] = db[3] /\ Out.rows[2] = db[1]

-----------------------------------------------------------------------------
(* Properties of the main workflow *)

CoreSteps == {"fetch_may", "fetch_june", "count_may", "count_june", "compare"}

\* C9: an error raised by a fetch, an aggregation or the comparison ends the
\* run there: it is the last statement the run executes (no retry, no later
\* step) and no file has been written.
C9_ErrorEndsRun ==
    \A i \in 1..Len(log) :
       (log[i].outcome = "raised" /\ log[i].step \in CoreSteps)
       => /\ i = Len(log)
          /\ pc = "aborted"
          /\ files = {}
          /\ \A j \in 1..(i - 1) : log[j].outcome = "ok" /\ log[j].step # log[i].step

\* the comparison raised after the five statements before it completed
C9_Witness ==
    /\ pc = "aborted"
    /\ Len(log) = 6
    /\ log[6] = [step |-> "compare", outcome |-> "raised"]
    /\ locals.df_may_counts.rows # <<>> /\ locals.df_june_counts.rows # <<>>
    /\ files = {}

====
